---- MODULE Spec2Model ----
(***************************************************************************)
(* Model of the typos-lsp binary resolution of the Zed extension           *)
(* (src/src/lib.rs): TyposExtension::language_server_binary and the pure   *)
(* helpers it uses, together with the environment it talks to (PATH        *)
(* lookup, the extension's working directory, the GitHub release index,    *)
(* the download primitive).                                                *)
(***************************************************************************)
EXTENDS Naturals, Sequences, FiniteSets, TLC

VARIABLES
    cached_binary_path,  \* TyposExtension.cached_binary_path : Option<String>
    fs,                  \* the extension's working directory "."
    which_result,        \* what worktree.which("typos-lsp") answers
    latest_release,      \* what the release index holds for tekumara/typos-lsp
    platform,            \* zed::current_platform().0
    architecture,        \* zed::current_platform().1
    last,                \* <<>> or <<r>>: the call that has just returned
    hist                 \* <<>> or <<h>>: the most recent call, while nothing
                         \* external changed the disk since (other than
                         \* deleting the cached file, which h.lost tells);
                         \* h.moved tells that PATH answers otherwise now

vars == <<cached_binary_path, fs, which_result, latest_release, platform,
          architecture, last, hist>>

-----------------------------------------------------------------------------
(* Bounds *)

\* Number of upstream versions v1..vMaxVersion the release index may hold.
MaxVersion == 2

Versions == {"v" \o ToString(i) : i \in 1..MaxVersion}

-----------------------------------------------------------------------------
(* Option<T>: None is the empty sequence, Some(x) the one-element one. *)

None == <<>>
Some(x) == <<x>>
unwrap(o) == o[1]

\* zed::Os and zed::Architecture, closed enumerations.
Os == {"Mac", "Linux", "Windows"}
Architecture == {"Aarch64", "X86", "X8664"}

\* Path::join on the extension's (wasm32-wasi, Unix-style) target.
join(a, b) == a \o "/" \o b

-----------------------------------------------------------------------------
(* Release Resolver: the two pure functions. *)

\* A slipped table: 32-bit x86 named after its own target triple.
binary_release_name_x86_own_token(version, p, a) ==
    "typos-lsp-" \o version \o "-"
        \o (CASE a = "Aarch64" -> "aarch64"
              [] a = "X86" -> "i686"
              [] a = "X8664" -> "x86_64")
        \o "-"
        \o (CASE p = "Mac" -> "apple-darwin"
              [] p = "Linux" -> "unknown-linux-gnu"
              [] p = "Windows" -> "pc-windows-msvc")
        \o "."
        \o (CASE p = "Windows" -> "zip"
              [] OTHER -> "tar.gz")

\* format!("typos-lsp-{version}-{arch}-{os}.{ext}", ...)
binary_release_name(version, p, a) ==
    "typos-lsp-" \o version \o "-"
        \o (CASE a = "Aarch64" -> "aarch64"
              [] a \in {"X86", "X8664"} -> "x86_64")
        \o "-"
        \o (CASE p = "Mac" -> "apple-darwin"
              [] p = "Linux" -> "unknown-linux-gnu"
              [] p = "Windows" -> "pc-windows-msvc")
        \o "."
        \o (CASE p = "Windows" -> "zip"
              [] OTHER -> "tar.gz")

\* A slipped dispatch: the nested layout applied to every platform.
binary_path_within_archive_always_nested(p, a) ==
    join(join(join("target",
                   (CASE a = "Aarch64" -> "aarch64"
                      [] a \in {"X86", "X8664"} -> "x86_64")
                   \o "-"
                   \o (CASE p = "Mac" -> "apple-darwin"
                         [] p = "Linux" -> "unknown-linux-gnu"
                         [] p = "Windows" -> "pc-windows-msvc")),
              "release"),
         "typos-lsp.exe")

\* match platform { Windows => target/{arch}-{os}/release/typos-lsp.exe,
\*                  _ => typos-lsp }
binary_path_within_archive(p, a) ==
    CASE p = "Windows" ->
           join(join(join("target",
                          (CASE a = "Aarch64" -> "aarch64"
                             [] a \in {"X86", "X8664"} -> "x86_64")
                          \o "-"
                          \o (CASE p = "Mac" -> "apple-darwin"
                                [] p = "Linux" -> "unknown-linux-gnu"
                                [] p = "Windows" -> "pc-windows-msvc")),
                     "release"),
                "typos-lsp.exe")
      [] OTHER -> "typos-lsp"

\* format!("typos-lsp-{}", version)
version_dir_of(version) == "typos-lsp-" \o version

-----------------------------------------------------------------------------
(* The environment the extension talks to. *)

\* Where a user-installed typos-lsp is found on the worktree's PATH.
UserBinary == "/usr/local/bin/typos-lsp"

\* An entry of the working directory that is no version directory.
OtherEntry == "scratch"

EntryNames == {version_dir_of(v) : v \in Versions} \cup {OtherEntry}

\* How upstream lays out the archive of a target: the executable at the root
\* of the tar.gz archives, under the build directory in the zip archives.
UpstreamLayout(p, a) ==
    IF p = "Windows"
    THEN IF a = "Aarch64"
         THEN "target/aarch64-pc-windows-msvc/release/typos-lsp.exe"
         ELSE "target/x86_64-pc-windows-msvc/release/typos-lsp.exe"
    ELSE "typos-lsp"

\* An archive that extracts cleanly but holds no executable where expected
\* (only the paths the extension looks at are kept track of).
NoExecutable == {}

\* The asset names upstream attaches to a release of `version`.
UpstreamAssets(version) ==
    { "typos-lsp-" \o version \o suffix :
        suffix \in {"-aarch64-apple-darwin.tar.gz", "-x86_64-apple-darwin.tar.gz",
                    "-aarch64-unknown-linux-gnu.tar.gz",
                    "-x86_64-unknown-linux-gnu.tar.gz",
                    "-aarch64-pc-windows-msvc.zip", "-x86_64-pc-windows-msvc.zip"} }

\* A release whose assets follow another naming convention (require_assets
\* still holds: it has assets).
RenamedAssets(version) ==
    { "typos-lsp-" \o version \o suffix :
        suffix \in {"-arm64-macos.tar.gz", "-amd64-linux.tar.gz", "-amd64-windows.zip"} }

\* zed::GithubRelease { version, assets }; an asset is (name, download_url),
\* the url being derived from the name.
Releases ==
    { [version |-> v, assets |-> UpstreamAssets(v)] : v \in Versions } \cup
    { [version |-> v, assets |-> RenamedAssets(v)] : v \in Versions }

\* fs::metadata(path).map_or(false, |stat| stat.is_file())
is_file(dir, path) == \E f \in dir.files : join(f.dir, f.inner) = path

\* The working directories a call may find: any set of entries, a version
\* directory holding the executable of this platform or nothing.
InitialDirs(p, a) ==
    UNION { { [entries |-> E,
               files |-> {[dir |-> d, inner |-> UpstreamLayout(p, a)] : d \in F}] :
              F \in SUBSET (E \ {OtherEntry}) } :
            E \in SUBSET EntryNames }

\* zed::download_file(url, dir, kind): fetches and extracts into dir.  On
\* failure nothing that existed is touched; dir may have been created.
download_file(dir, version_dir, outcome, archive) ==
    CASE outcome = "ok" ->
           [ok |-> TRUE,
            fs |-> [entries |-> dir.entries \cup {version_dir},
                    files |-> dir.files \cup
                              {[dir |-> version_dir, inner |-> i] : i \in archive}]]
      [] outcome = "partial" ->
           [ok |-> FALSE,
            fs |-> [dir EXCEPT !.entries = @ \cup {version_dir}]]
      [] OTHER -> [ok |-> FALSE, fs |-> dir]

\* fs::remove_dir_all(entry.path()) that succeeds.
remove_dir_all(dir, name) ==
    [entries |-> dir.entries \ {name},
     files |-> {f \in dir.files : f.dir # name}]

RECURSIVE remove_all(_, _)
remove_all(dir, names) ==
    IF names = {} THEN dir
    ELSE LET n == CHOOSE n \in names : TRUE
         IN remove_all(remove_dir_all(dir, n), names \ {n})

\* A cleanup that keeps the entries which are not version directories
\* (and so never reaches them).
clean_other_installations_versions_only(dir, version_to_keep, listing) ==
    LET visited == IF listing.kind = "ok" THEN dir.entries
                   ELSE IF listing.kind = "read_dir" THEN {}
                   ELSE listing.reached \cap dir.entries
        attempted == {e \in visited : e # version_to_keep /\ e # OtherEntry}
        removed == attempted \ listing.stuck
    IN [ok |-> listing.kind = "ok",
        err |-> IF listing.kind = "read_dir"
                THEN <<"failed to list working directory ", "io error">>
                ELSE IF listing.kind = "entry"
                THEN <<"failed to load directory entry ", "io error">>
                ELSE <<>>,
        fs |-> remove_all(dir, removed),
        attempted |-> attempted,
        removed |-> removed]

\* A cleanup that propagates a failed removal with `?` instead of .ok().
clean_other_installations_strict(dir, version_to_keep, listing) ==
    LET visited == IF listing.kind = "ok" THEN dir.entries
                   ELSE IF listing.kind = "read_dir" THEN {}
                   ELSE listing.reached \cap dir.entries
        attempted == {e \in visited : e # version_to_keep}
        removed == attempted \ listing.stuck
    IN [ok |-> listing.kind = "ok" /\ removed = attempted,
        err |-> IF listing.kind = "read_dir"
                THEN <<"failed to list working directory ", "io error">>
                ELSE IF listing.kind = "entry"
                THEN <<"failed to load directory entry ", "io error">>
                ELSE IF removed # attempted
                THEN <<"failed to remove ", "io error">>
                ELSE <<>>,
        fs |-> remove_all(dir, removed),
        attempted |-> attempted,
        removed |-> removed]

\* A cleanup that swallows the listing errors as it does the removal ones.
clean_other_installations_lenient(dir, version_to_keep, listing) ==
    LET visited == IF listing.kind = "ok" THEN dir.entries
                   ELSE IF listing.kind = "read_dir" THEN {}
                   ELSE listing.reached \cap dir.entries
        attempted == {e \in visited : e # version_to_keep}
        removed == attempted \ listing.stuck
    IN [ok |-> TRUE,
        err |-> <<>>,
        fs |-> remove_all(dir, removed),
        attempted |-> attempted,
        removed |-> removed]

\* A cleanup that compares nothing and removes every entry it meets.
clean_other_installations_all(dir, version_to_keep, listing) ==
    LET visited == IF listing.kind = "ok" THEN dir.entries
                   ELSE IF listing.kind = "read_dir" THEN {}
                   ELSE listing.reached \cap dir.entries
        attempted == visited
        removed == attempted \ listing.stuck
    IN [ok |-> listing.kind = "ok",
        err |-> IF listing.kind = "read_dir"
                THEN <<"failed to list working directory ", "io error">>
                ELSE IF listing.kind = "entry"
                THEN <<"failed to load directory entry ", "io error">>
                ELSE <<>>,
        fs |-> remove_all(dir, removed),
        attempted |-> attempted,
        removed |-> removed]

\* fn clean_other_installations(version_to_keep).  `listing` is what the
\* filesystem does: read_dir fails, or an entry fails to load after the
\* entries in `reached` were iterated, or the iteration completes; removal
\* of the entries in `stuck` fails (and is ignored by .ok()).
clean_other_installations(dir, version_to_keep, listing) ==
    LET visited == IF listing.kind = "ok" THEN dir.entries
                   ELSE IF listing.kind = "read_dir" THEN {}
                   ELSE listing.reached \cap dir.entries
        attempted == {e \in visited : e # version_to_keep}
        removed == attempted \ listing.stuck
    IN [ok |-> listing.kind = "ok",
        err |-> IF listing.kind = "read_dir"
                THEN <<"failed to list working directory ", "io error">>
                ELSE IF listing.kind = "entry"
                THEN <<"failed to load directory entry ", "io error">>
                ELSE <<>>,
        fs |-> remove_all(dir, removed),
        attempted |-> attempted,
        removed |-> removed]

-----------------------------------------------------------------------------
(* The Binary Locator. *)

\* What the environment does during one call: the release query answers or
\* fails, the download succeeds (extracting `archive`), fails, or fails
\* leaving the directory behind, and the cleanup's listing as above.
ListingOk(stuck) == [kind |-> "ok", reached |-> {}, stuck |-> stuck]
AllGoesWell(p, a) ==
    [query |-> "ok", download |-> "ok", archive |-> {UpstreamLayout(p, a)},
     listing |-> ListingOk({})]

Repeat(x, n) == [i \in 1..n |-> x]

\* The state of one call: what it will return, the extension state and the
\* working directory as it leaves them, and what it did, in order.
Frame(self, dir) ==
    [ok |-> FALSE, path |-> "", args |-> None, err |-> <<>>,
     cached |-> self, fs |-> dir, log |-> <<>>,
     asset_name |-> "", within |-> "", binary_path |-> "",
     query |-> "", download |-> "", archive |-> {}, listing |-> "",
     attempted |-> {}, removed |-> {}]

\* Ok(TyposBinary { path, args: Some(vec![]) })
Found(r, path) == [r EXCEPT !.ok = TRUE, !.path = path, !.args = Some(<<>>)]

\* The cache check without the look at the disk.
cache_valid_unchecked(self, dir) == self # None

\* A cache that is never answered from.
cache_valid_never(self, dir) == FALSE

\* if let Some(path) = &self.cached_binary_path { if is_file(path) ...
cache_valid(self, dir) == self # None /\ is_file(dir, unwrap(self))

\* An asset lookup that settles for any asset of the release.
find_asset_any(release, asset_name) == release.assets # {}

\* release.assets.iter().find(|asset| asset.name == asset_name)
find_asset(release, asset_name) == asset_name \in release.assets

\* The download block with the cleanup moved in front of the download.
install_clean_first(r, version_dir, binary_path, in) ==
    IF ~is_file(r.fs, binary_path)
    THEN LET cl == clean_other_installations(r.fs, version_dir, in.listing)
             dl == download_file(cl.fs, version_dir, in.download, in.archive)
             r1 == [r EXCEPT !.log = @ \o <<"read_dir">>
                                     \o Repeat("remove_dir_all", Cardinality(cl.attempted))
                                     \o <<"Downloading", "download_file">>,
                             !.listing = in.listing.kind,
                             !.attempted = cl.attempted,
                             !.removed = cl.removed,
                             !.download = in.download,
                             !.fs = dl.fs]
         IN IF ~cl.ok THEN [r1 EXCEPT !.err = cl.err]
            ELSE IF ~dl.ok
            THEN [r1 EXCEPT !.err = <<"failed to download file: ", "io error">>]
            ELSE [r1 EXCEPT !.archive = in.archive]
    ELSE r

\* The download block without the look at the disk.
install_always(r, version_dir, binary_path, in) ==
    LET r1 == [r EXCEPT !.log = @ \o <<"Downloading", "download_file">>,
                        !.download = in.download]
        dl == download_file(r.fs, version_dir, in.download, in.archive)
    IN IF ~dl.ok
       THEN [r1 EXCEPT !.fs = dl.fs,
                       !.err = <<"failed to download file: ", "io error">>]
       ELSE LET cl == clean_other_installations(dl.fs, version_dir, in.listing)
            IN [r1 EXCEPT !.archive = in.archive,
                          !.listing = in.listing.kind,
                          !.log = @ \o <<"read_dir">>
                                    \o Repeat("remove_dir_all", Cardinality(cl.attempted)),
                          !.attempted = cl.attempted,
                          !.removed = cl.removed,
                          !.fs = cl.fs,
                          !.err = cl.err]

\* The download block with the cleanup run also when the binary is there.
install_cleanup_always(r, version_dir, binary_path, in) ==
    IF ~is_file(r.fs, binary_path)
    THEN install_always(r, version_dir, binary_path, in)
    ELSE LET cl == clean_other_installations(r.fs, version_dir, in.listing)
         IN [r EXCEPT !.listing = in.listing.kind,
                      !.log = @ \o <<"read_dir">>
                                \o Repeat("remove_dir_all", Cardinality(cl.attempted)),
                      !.attempted = cl.attempted,
                      !.removed = cl.removed,
                      !.fs = cl.fs,
                      !.err = cl.err]

\* The download block with the downloading notification sent once the
\* download has returned.
install_notify_late(r, version_dir, binary_path, in) ==
    IF ~is_file(r.fs, binary_path)
    THEN LET r1 == [r EXCEPT !.log = @ \o <<"download_file", "Downloading">>,
                             !.download = in.download]
             dl == download_file(r.fs, version_dir, in.download, in.archive)
         IN IF ~dl.ok
            THEN [r1 EXCEPT !.fs = dl.fs,
                            !.err = <<"failed to download file: ", "io error">>]
            ELSE LET cl == clean_other_installations(dl.fs, version_dir, in.listing)
                 IN [r1 EXCEPT !.archive = in.archive,
                               !.listing = in.listing.kind,
                               !.log = @ \o <<"read_dir">>
                                         \o Repeat("remove_dir_all", Cardinality(cl.attempted)),
                               !.attempted = cl.attempted,
                               !.removed = cl.removed,
                               !.fs = cl.fs,
                               !.err = cl.err]
    ELSE r

\* The download block that takes the new directory away again when the
\* cleanup fails.
install_rollback(r, version_dir, binary_path, in) ==
    IF ~is_file(r.fs, binary_path)
    THEN LET r1 == [r EXCEPT !.log = @ \o <<"Downloading", "download_file">>,
                             !.download = in.download]
             dl == download_file(r.fs, version_dir, in.download, in.archive)
         IN IF ~dl.ok
            THEN [r1 EXCEPT !.fs = dl.fs,
                            !.err = <<"failed to download file: ", "io error">>]
            ELSE LET cl == clean_other_installations(dl.fs, version_dir, in.listing)
                 IN [r1 EXCEPT !.archive = in.archive,
                               !.listing = in.listing.kind,
                               !.log = @ \o <<"read_dir">>
                                         \o Repeat("remove_dir_all", Cardinality(cl.attempted)),
                               !.attempted = cl.attempted,
                               !.removed = cl.removed,
                               !.fs = IF cl.ok THEN cl.fs
                                      ELSE remove_dir_all(cl.fs, version_dir),
                               !.err = cl.err]
    ELSE r

\* if !is_file(&binary_path) { status(Downloading); download_file(..)?;
\*                             clean_other_installations(&version_dir)?; }
install(r, version_dir, binary_path, in) ==
    IF ~is_file(r.fs, binary_path)
    THEN LET r1 == [r EXCEPT !.log = @ \o <<"Downloading", "download_file">>,
                             !.download = in.download]
             dl == download_file(r.fs, version_dir, in.download, in.archive)
         IN IF ~dl.ok
            THEN [r1 EXCEPT !.fs = dl.fs,
                            !.err = <<"failed to download file: ", "io error">>]
            ELSE LET cl == clean_other_installations(dl.fs, version_dir, in.listing)
                 IN [r1 EXCEPT !.archive = in.archive,
                               !.listing = in.listing.kind,
                               !.log = @ \o <<"read_dir">>
                                         \o Repeat("remove_dir_all", Cardinality(cl.attempted)),
                               !.attempted = cl.attempted,
                               !.removed = cl.removed,
                               !.fs = cl.fs,
                               !.err = cl.err]
    ELSE r

\* The provisioning path with the release query tried a second time when
\* it fails.
provision_retry(self, dir, release, p, a, in) ==
    LET r0 == [Frame(self, dir) EXCEPT
                 !.log = <<"CheckingForUpdate", "latest_github_release">>,
                 !.query = in.query]
    IN IF in.query # "ok"
       THEN [r0 EXCEPT !.log = @ \o <<"latest_github_release">>,
                       !.err = <<"release query failed">>]
       ELSE
       LET version == release.version
           asset_name == binary_release_name(version, p, a)
           r1 == [r0 EXCEPT !.asset_name = asset_name]
       IN IF ~find_asset(release, asset_name)
          THEN [r1 EXCEPT !.err = <<"no asset found matching ", "\"", asset_name, "\"">>]
          ELSE
          LET version_dir == version_dir_of(version)
              within == binary_path_within_archive(p, a)
              binary_path == join(version_dir, within)
              r2 == install([r1 EXCEPT !.within = within,
                                       !.binary_path = binary_path],
                            version_dir, binary_path, in)
          IN IF r2.err # <<>> THEN r2
             ELSE Found([r2 EXCEPT !.cached = Some(binary_path)], binary_path)

\* The provisioning path with the cache written as soon as the binary path
\* is known, before the download block.
provision_cache_early(self, dir, release, p, a, in) ==
    LET r0 == [Frame(self, dir) EXCEPT
                 !.log = <<"CheckingForUpdate", "latest_github_release">>,
                 !.query = in.query]
    IN IF in.query # "ok" THEN [r0 EXCEPT !.err = <<"release query failed">>]
       ELSE
       LET version == release.version
           asset_name == binary_release_name(version, p, a)
           r1 == [r0 EXCEPT !.asset_name = asset_name]
       IN IF ~find_asset(release, asset_name)
          THEN [r1 EXCEPT !.err = <<"no asset found matching ", "\"", asset_name, "\"">>]
          ELSE
          LET version_dir == version_dir_of(version)
              within == binary_path_within_archive(p, a)
              binary_path == join(version_dir, within)
              r2 == install([r1 EXCEPT !.within = within,
                                       !.binary_path = binary_path,
                                       !.cached = Some(binary_path)],
                            version_dir, binary_path, in)
          IN IF r2.err # <<>> THEN r2
             ELSE Found(r2, binary_path)

\* The provisioning path: status(CheckingForUpdate); latest_github_release?;
\* the asset lookup; the download block; the cache write; Ok(..).
provision(self, dir, release, p, a, in) ==
    LET r0 == [Frame(self, dir) EXCEPT
                 !.log = <<"CheckingForUpdate", "latest_github_release">>,
                 !.query = in.query]
    IN IF in.query # "ok" THEN [r0 EXCEPT !.err = <<"release query failed">>]
       ELSE
       LET version == release.version
           asset_name == binary_release_name(version, p, a)
           r1 == [r0 EXCEPT !.asset_name = asset_name]
       IN IF ~find_asset(release, asset_name)
          THEN [r1 EXCEPT !.err = <<"no asset found matching ", "\"", asset_name, "\"">>]
          ELSE
          LET version_dir == version_dir_of(version)
              within == binary_path_within_archive(p, a)
              binary_path == join(version_dir, within)
              r2 == install([r1 EXCEPT !.within = within,
                                       !.binary_path = binary_path],
                            version_dir, binary_path, in)
          IN IF r2.err # <<>> THEN r2
             ELSE Found([r2 EXCEPT !.cached = Some(binary_path)], binary_path)

\* The resolution chain with the cache consulted before PATH.
language_server_binary_cache_first(self, which, dir, release, p, a, in) ==
    IF cache_valid(self, dir) THEN Found(Frame(self, dir), unwrap(self))
    ELSE IF which # None THEN Found(Frame(self, dir), unwrap(which))
    ELSE provision(self, dir, release, p, a, in)

\* fn language_server_binary(&mut self, language_server_id, worktree)
language_server_binary(self, which, dir, release, p, a, in) ==
    IF which # None THEN Found(Frame(self, dir), unwrap(which))
    ELSE IF cache_valid(self, dir) THEN Found(Frame(self, dir), unwrap(self))
    ELSE provision(self, dir, release, p, a, in)

\* fn language_server_command: the binary's path and unwrapped arguments as
\* a zed::Command with an empty environment, or the error.
language_server_command(self, which, dir, release, p, a, in) ==
    LET b == language_server_binary(self, which, dir, release, p, a, in)
    IN [binary |-> b,
        command |-> IF b.ok
                    THEN Some([command |-> b.path, args |-> unwrap(b.args), env |-> <<>>])
                    ELSE None]

-----------------------------------------------------------------------------
(* State machine. *)

\* What the filesystem may do to a cleanup over the entries E.  In an
\* iteration that fails, an entry whose removal fails and an entry that is
\* not reached both stay on disk, so the entries that stay are drawn as the
\* ones not reached.
Listings(E) ==
    { ListingOk(stuck) : stuck \in SUBSET E } \cup
    { [kind |-> "read_dir", reached |-> {}, stuck |-> {}] } \cup
    { [kind |-> "entry", reached |-> reached, stuck |-> {}] : reached \in SUBSET E }

\* The environment outcomes a call can meet.  Outcomes of steps the call
\* does not reach are not drawn: the call that meets no failure goes
\* furthest, and tells which steps there are to fail.
Outcomes(self, which, dir, release, p, a) ==
    LET well == AllGoesWell(p, a)
        far == language_server_binary(self, which, dir, release, p, a, well)
        E == dir.entries \ {version_dir_of(release.version)}
    IN {well}
       \cup (IF far.query = "" THEN {} ELSE {[well EXCEPT !.query = "err"]})
       \cup (IF far.download = "" THEN {}
             ELSE {[well EXCEPT !.download = d] : d \in {"fail", "partial"}} \cup
                  {[well EXCEPT !.archive = ar, !.listing = l] :
                     ar \in {well.archive, NoExecutable}, l \in Listings(E)})

\* The targets whose whole environment is explored: one of each archive
\* layout.  Every target is explored by SpecTargets below.
MainTargets == {<<"Linux", "X8664">>, <<"Windows", "Aarch64">>}

\* Extension::new() on a machine in any state.
Init ==
    /\ cached_binary_path = None
    /\ \E t \in MainTargets : platform = t[1] /\ architecture = t[2]
    /\ fs \in InitialDirs(platform, architecture)
    /\ which_result \in {None, Some(UserBinary)}
    /\ latest_release \in Releases
    /\ last = <<>>
    /\ hist = <<>>

\* The host asks for the launch command.
LanguageServerCommand ==
    \E in \in Outcomes(cached_binary_path, which_result, fs, latest_release,
                       platform, architecture) :
        LET c == language_server_command(cached_binary_path, which_result, fs,
                                         latest_release, platform, architecture, in)
            b == c.binary
        IN /\ cached_binary_path' = b.cached
           /\ fs' = b.fs
           /\ last' = <<[binary |-> b,
                         command |-> c.command,
                         pre |-> [cached |-> cached_binary_path, fs |-> fs,
                                  which |-> which_result, release |-> latest_release],
                         prev |-> hist]>>
           /\ hist' = <<[ok |-> b.ok, path |-> b.path,
                         stored |-> b.ok /\ b.query # "",
                         left |-> IF ~b.ok /\ b.download = "ok"
                                     /\ is_file(b.fs, b.binary_path)
                                  THEN Some(b.binary_path) ELSE None,
                         lost |-> FALSE,
                         moved |-> FALSE]>>
           /\ UNCHANGED <<which_result, latest_release, platform, architecture>>

\* Somebody deletes a file of the working directory.
ExternalDelete ==
    \E f \in fs.files :
        /\ fs' = [fs EXCEPT !.files = @ \ {f}]
        /\ hist' = IF hist # <<>> /\ cached_binary_path = Some(join(f.dir, f.inner))
                   THEN <<[hist[1] EXCEPT !.lost = TRUE]>>
                   ELSE <<>>
        /\ last' = <<>>
        /\ UNCHANGED <<cached_binary_path, which_result, latest_release,
                       platform, architecture>>

\* The user installs or uninstalls a typos-lsp of their own on PATH.
PathChange ==
    /\ which_result' = IF which_result = None THEN Some(UserBinary) ELSE None
    /\ last' = <<>>
    /\ hist' = IF hist # <<>> THEN <<[hist[1] EXCEPT !.moved = ~@]>> ELSE <<>>
    /\ UNCHANGED <<cached_binary_path, fs, latest_release, platform,
                   architecture>>

\* Upstream publishes another latest release.
Publish ==
    \E rel \in Releases \ {latest_release} :
        /\ latest_release' = rel
        /\ last' = <<>>
        /\ UNCHANGED <<cached_binary_path, fs, which_result, platform,
                       architecture, hist>>

Next ==
    \/ LanguageServerCommand
    \/ ExternalDelete
    \/ PathChange
    \/ Publish

Spec == Init /\ [][Next]_vars

\* Every target, on a machine with nothing installed and nothing on PATH:
\* the resolver's two functions are applied to every (version, os,
\* architecture) the release index and the host can present.
InitTargets ==
    /\ cached_binary_path = None
    /\ platform \in Os
    /\ architecture \in Architecture
    /\ fs = [entries |-> {}, files |-> {}]
    /\ which_result = None
    /\ latest_release \in Releases
    /\ last = <<>>
    /\ hist = <<>>

NextTargets ==
    \/ LanguageServerCommand
    \/ Publish

SpecTargets == InitTargets /\ [][NextTargets]_vars

-----------------------------------------------------------------------------
(* Properties.  They speak of the call that has just returned (last), the    *)
(* state it started from (its pre) and the state it left.                    *)

Called == last # <<>>
TheCall == last[1]
Ret == last[1].binary
Pre == last[1].pre
Did(ev) == \E i \in 1..Len(Ret.log) : Ret.log[i] = ev

\* The call missed PATH and the cache, so took the provisioning path.
Provisioning ==
    /\ Pre.which = None
    /\ ~(Pre.cached # None /\ is_file(Pre.fs, Pre.cached[1]))

\* The naming tables of the release assets, written out.
ArchToken(a) == IF a = "Aarch64" THEN "aarch64" ELSE "x86_64"
OsToken(p) ==
    IF p = "Mac" THEN "apple-darwin"
    ELSE IF p = "Linux" THEN "unknown-linux-gnu" ELSE "pc-windows-msvc"
Extension(p) == IF p = "Windows" THEN "zip" ELSE "tar.gz"
ExpectedAssetName(version, p, a) ==
    "typos-lsp-" \o version \o "-" \o ArchToken(a) \o "-" \o OsToken(p)
        \o "." \o Extension(p)
ExpectedWithin(p, a) ==
    IF p = "Windows"
    THEN "target/" \o ArchToken(a) \o "-pc-windows-msvc/release/typos-lsp.exe"
    ELSE "typos-lsp"

\* The directory and the final binary path of the latest release the call saw.
LatestDir == "typos-lsp-" \o Pre.release.version
LatestBinary == LatestDir \o "/" \o ExpectedWithin(platform, architecture)

VersionDirs(dir) == dir.entries \ {OtherEntry}

\* C1: a call in which worktree.which("typos-lsp") finds a path returns
\* exactly that path with no arguments, whatever is cached and installed,
\* and does nothing else: no notification, no release query, no download,
\* no removal.
C1_PathPrecedence ==
    (Called /\ Pre.which # None) =>
        /\ Ret.ok
        /\ TheCall.command =
             Some([command |-> Pre.which[1], args |-> <<>>, env |-> <<>>])
        /\ Ret.log = <<>>
        /\ fs = Pre.fs

C1_Witness ==
    /\ Called
    /\ Pre.which = Some(UserBinary)
    /\ Pre.cached # None
    /\ is_file(Pre.fs, Pre.cached[1])
    /\ Cardinality(VersionDirs(Pre.fs)) >= 2
    /\ Ret.path = UserBinary

\* C2 (as claimed): the call after a successful call, with no external
\* change of the disk or of PATH in between, succeeds with the same path
\* and without release query or download.
C2_Idempotence ==
    (Called /\ TheCall.prev # <<>> /\ TheCall.prev[1].ok
            /\ ~TheCall.prev[1].lost /\ ~TheCall.prev[1].moved) =>
        /\ Ret.ok
        /\ Ret.path = TheCall.prev[1].path
        /\ ~Did("latest_github_release")
        /\ ~Did("download_file")

\* C3 (as claimed): after a call that succeeds through the provisioning
\* path exactly one version directory remains, that of the version returned.
C3_ExactlyOneRemains ==
    (Called /\ Provisioning /\ Ret.ok) => VersionDirs(fs) = {LatestDir}

\* C3 (amended): after a call that succeeds through the provisioning path
\* and downloaded, the new version's directory exists, removal of every
\* other entry was attempted, and what remains besides the new directory is
\* exactly the entries whose removal failed.
C3_CleanupAfterDownload ==
    (Called /\ Provisioning /\ Ret.ok /\ Did("download_file")) =>
        /\ LatestDir \in fs.entries
        /\ Ret.attempted = Pre.fs.entries \ {LatestDir}
        /\ fs.entries \ {LatestDir} = Ret.attempted \ Ret.removed
        /\ (Ret.removed = Ret.attempted => fs.entries = {LatestDir})

C3_Witness ==
    /\ Called /\ Provisioning /\ Ret.ok /\ Did("download_file")
    /\ Cardinality(Pre.fs.entries \ {LatestDir}) >= 2
    /\ fs.entries = {LatestDir}

\* C4: a call that finds nothing on PATH and a cached path whose file is
\* gone does not answer from the cache: it emits checking-for-update,
\* queries the release index, and returns a path only if the release query,
\* the asset lookup and (where the binary is absent) the download and the
\* cleanup all succeed.
C4_CacheInvalidation ==
    (Called /\ Pre.which = None /\ Pre.cached # None
            /\ ~is_file(Pre.fs, Pre.cached[1])) =>
        /\ Len(Ret.log) >= 2
        /\ Ret.log[1] = "CheckingForUpdate"
        /\ Ret.log[2] = "latest_github_release"
        /\ Ret.ok =>
             /\ Ret.query = "ok"
             /\ ExpectedAssetName(Pre.release.version, platform, architecture)
                  \in Pre.release.assets
             /\ \/ is_file(Pre.fs, LatestBinary)
                \/ Ret.download = "ok" /\ Ret.listing = "ok"
             /\ Ret.path = LatestBinary

C4_Witness ==
    /\ Called
    /\ TheCall.prev # <<>> /\ TheCall.prev[1].stored /\ TheCall.prev[1].lost
    /\ Pre.which = None
    /\ Pre.cached = Some(TheCall.prev[1].path)
    /\ ~is_file(Pre.fs, Pre.cached[1])
    /\ Ret.ok

\* C5 (as claimed): whenever a call stores cached_binary_path, a file exists
\* at the stored path at that moment.
C5_CachedFileExisted ==
    (Called /\ Ret.ok /\ Provisioning) =>
        /\ cached_binary_path # None
        /\ is_file(fs, cached_binary_path[1])

\* C6: when PATH and cache miss and the latest release has no asset of the
\* expected name, the call fails with an error that holds the expected
\* name, downloads nothing, leaves the working directory and the cache as
\* they were.
C6_AssetMismatch ==
    (Called /\ Provisioning /\ Ret.query = "ok"
            /\ ExpectedAssetName(Pre.release.version, platform, architecture)
                 \notin Pre.release.assets) =>
        /\ ~Ret.ok
        /\ TheCall.command = None
        /\ \E i \in 1..Len(Ret.err) :
             Ret.err[i] = ExpectedAssetName(Pre.release.version, platform, architecture)
        /\ ~Did("Downloading")
        /\ ~Did("download_file")
        /\ ~Did("remove_dir_all")
        /\ fs = Pre.fs
        /\ cached_binary_path = Pre.cached

C6_Witness ==
    /\ Called /\ Provisioning /\ Ret.query = "ok"
    /\ Pre.release.assets = RenamedAssets(Pre.release.version)
    /\ Pre.cached # None
    /\ Pre.fs.entries # {}
    /\ ~Ret.ok
    /\ Ret.err[1] = "no asset found matching "

\* C7: for every version, operating system and architecture the asset name
\* the call computes is typos-lsp-{version}-{archToken}-{osToken}.{ext} by
\* the tables; x86 and x86_64 both give the x86_64 token.
C7_ReleaseName ==
    (Called /\ Ret.asset_name # "") =>
        /\ Ret.asset_name =
             ExpectedAssetName(Pre.release.version, platform, architecture)
        /\ architecture \in {"X86", "X8664"} =>
             Ret.asset_name = "typos-lsp-" \o Pre.release.version \o "-x86_64-"
                                \o OsToken(platform) \o "." \o Extension(platform)

C7_Witness ==
    /\ Called
    /\ platform = "Windows" /\ architecture = "X86"
    /\ Pre.release.version = "v1"
    /\ Ret.asset_name = "typos-lsp-v1-x86_64-pc-windows-msvc.zip"

\* C8: for every architecture the path within the archive the call computes
\* is typos-lsp on mac and linux and
\* target/{archToken}-pc-windows-msvc/release/typos-lsp.exe on windows, with
\* the architecture token of the asset name.
C8_PathWithinArchive ==
    (Called /\ Ret.within # "") =>
        /\ platform \in {"Mac", "Linux"} => Ret.within = "typos-lsp"
        /\ platform = "Windows" =>
             Ret.within = "target/" \o ArchToken(architecture)
                            \o "-pc-windows-msvc/release/typos-lsp.exe"
        /\ Ret.binary_path = LatestDir \o "/" \o Ret.within

C8_Witness ==
    /\ Called
    /\ platform = "Windows" /\ architecture = "X86"
    /\ Ret.within = "target/x86_64-pc-windows-msvc/release/typos-lsp.exe"

\* C9 (as claimed): a call on the provisioning path that finds a file at the
\* final binary path completes without querying the release index.
C9_NoQueryWhenPresent ==
    (Called /\ Provisioning /\ is_file(Pre.fs, LatestBinary)) =>
        ~Did("latest_github_release")

\* C9 (amended): every call on the provisioning path queries the release
\* index, right after the checking-for-update notification; it is the
\* download that happens only if no file exists at the final binary path,
\* and a call that finds the file there (the release having the asset)
\* completes after the query without downloading.
C9_DownloadOnlyWhenAbsent ==
    (Called /\ Provisioning) =>
        /\ Len(Ret.log) >= 2 /\ Ret.log[2] = "latest_github_release"
        /\ Did("download_file") => ~is_file(Pre.fs, LatestBinary)
        /\ (Ret.query = "ok" /\ is_file(Pre.fs, LatestBinary)
              /\ ExpectedAssetName(Pre.release.version, platform, architecture)
                   \in Pre.release.assets) =>
             /\ Ret.ok
             /\ Ret.path = LatestBinary
             /\ Ret.log = <<"CheckingForUpdate", "latest_github_release">>

C9_Witness ==
    /\ Called /\ Provisioning
    /\ is_file(Pre.fs, LatestBinary)
    /\ Ret.ok
    /\ Ret.log = <<"CheckingForUpdate", "latest_github_release">>

\* C10: no entry of the working directory is listed or removed before the
\* download has reported success; when the release query, the asset lookup
\* or the download fails, every entry and every file that existed before
\* the call is still there.
C10_CleanupAfterInstall ==
    Called =>
        /\ \A i \in 1..Len(Ret.log) :
             Ret.log[i] \in {"read_dir", "remove_dir_all"} =>
                /\ Ret.download = "ok"
                /\ \E j \in 1..(i - 1) : Ret.log[j] = "download_file"
        /\ (~Ret.ok /\ Ret.listing = "") =>
             /\ Pre.fs.entries \subseteq fs.entries
             /\ Pre.fs.files \subseteq fs.files
             /\ Ret.removed = {}

C10_Witness ==
    /\ Called /\ Provisioning
    /\ Ret.download \in {"fail", "partial"}
    /\ ~Ret.ok
    /\ \E f \in Pre.fs.files : f.dir # LatestDir /\ f \in fs.files
    /\ Pre.fs.entries \subseteq fs.entries

\* The latest release the call saw has the asset of the expected name.
HasAsset ==
    ExpectedAssetName(Pre.release.version, platform, architecture)
        \in Pre.release.assets

\* C11 (as claimed): a call that misses PATH and cache and finds a file at
\* the final binary path of the latest release's version emits no
\* downloading notification, downloads nothing, cleans nothing, stores that
\* path in the cache and returns it.
C11_ShortCircuit ==
    (Called /\ Provisioning /\ Ret.query = "ok" /\ is_file(Pre.fs, LatestBinary)) =>
        /\ ~Did("Downloading")
        /\ ~Did("download_file")
        /\ ~Did("read_dir")
        /\ ~Did("remove_dir_all")
        /\ fs = Pre.fs
        /\ Ret.ok
        /\ Ret.path = LatestBinary
        /\ cached_binary_path = Some(LatestBinary)

\* C11 (amended): the same, for a latest release that has the asset of the
\* expected name; without that asset the call fails at the asset lookup,
\* whatever is on disk.
C11_ShortCircuitWithAsset ==
    (Called /\ Provisioning /\ Ret.query = "ok" /\ HasAsset
            /\ is_file(Pre.fs, LatestBinary)) =>
        /\ ~Did("Downloading")
        /\ ~Did("download_file")
        /\ ~Did("read_dir")
        /\ ~Did("remove_dir_all")
        /\ fs = Pre.fs
        /\ Ret.ok
        /\ TheCall.command =
             Some([command |-> LatestBinary, args |-> <<>>, env |-> <<>>])
        /\ cached_binary_path = Some(LatestBinary)

C11_Witness ==
    /\ Called /\ Provisioning /\ Ret.query = "ok" /\ HasAsset
    /\ is_file(Pre.fs, LatestBinary)
    /\ Pre.cached = None
    /\ Cardinality(Pre.fs.entries) >= 2
    /\ fs = Pre.fs
    /\ cached_binary_path = Some(LatestBinary)

\* C12: after a successful download, with the working directory listed, the
\* call succeeds whichever removals fail: it returns the new binary path
\* and stores it in the cache, and the entries whose removal failed stay.
C12_RemovalFailuresSuppressed ==
    (Called /\ Ret.download = "ok" /\ Ret.listing = "ok") =>
        /\ Ret.ok
        /\ Ret.err = <<>>
        /\ TheCall.command =
             Some([command |-> LatestBinary, args |-> <<>>, env |-> <<>>])
        /\ cached_binary_path = Some(LatestBinary)
        /\ Ret.attempted \ Ret.removed \subseteq fs.entries

C12_Witness ==
    /\ Called /\ Ret.download = "ok" /\ Ret.listing = "ok"
    /\ Cardinality(Ret.attempted) >= 2
    /\ Ret.removed = {}
    /\ Ret.ok
    /\ cached_binary_path = Some(LatestBinary)

\* C13: after a successful download, a failure to list the working
\* directory or to load one of its entries makes the call fail with that
\* error: no launch descriptor is returned.
C13_ListingFailuresSurfaced ==
    (Called /\ Ret.download = "ok" /\ Ret.listing \in {"read_dir", "entry"}) =>
        /\ ~Ret.ok
        /\ TheCall.command = None
        /\ Ret.listing = "read_dir" =>
             Ret.err[1] = "failed to list working directory "
        /\ Ret.listing = "entry" =>
             Ret.err[1] = "failed to load directory entry "

C13_Witness ==
    /\ Called /\ Ret.download = "ok" /\ Ret.listing = "entry"
    /\ Ret.removed # {}
    /\ ~Ret.ok
    /\ TheCall.command = None

Count(ev) == Cardinality({i \in 1..Len(Ret.log) : Ret.log[i] = ev})

\* C14: checking-for-update is emitted in exactly the calls that miss PATH
\* and cache, first of all and right before the release query; downloading
\* is emitted only in a call that then starts a download, after that call's
\* checking-for-update and right before the download; a PATH hit or a cache
\* hit emits nothing.
C14_NotificationOrdering ==
    Called =>
        /\ Did("CheckingForUpdate") <=> Provisioning
        /\ Provisioning =>
             /\ Count("CheckingForUpdate") = 1
             /\ Ret.log[1] = "CheckingForUpdate"
             /\ Ret.log[2] = "latest_github_release"
        /\ Count("Downloading") <= 1
        /\ \A i \in 1..Len(Ret.log) :
             /\ Ret.log[i] = "Downloading" =>
                  /\ i < Len(Ret.log) /\ Ret.log[i + 1] = "download_file"
                  /\ \E j \in 1..(i - 1) : Ret.log[j] = "CheckingForUpdate"
             /\ Ret.log[i] = "download_file" =>
                  i > 1 /\ Ret.log[i - 1] = "Downloading"
        /\ ~Provisioning => Ret.log = <<>>

C14_Witness ==
    /\ Called /\ Provisioning
    /\ Len(Ret.log) >= 4
    /\ Ret.log[1] = "CheckingForUpdate"
    /\ Ret.log[2] = "latest_github_release"
    /\ Ret.log[3] = "Downloading"
    /\ Ret.log[4] = "download_file"
    /\ Ret.download = "fail"

\* C15: a call that finds nothing on PATH and a cached path at which a file
\* exists returns the cached path unchanged, with no arguments, and does
\* nothing else, also when the release index holds another version and
\* other version directories exist.
C15_CacheHit ==
    (Called /\ Pre.which = None /\ Pre.cached # None
            /\ is_file(Pre.fs, Pre.cached[1])) =>
        /\ Ret.ok
        /\ TheCall.command =
             Some([command |-> Pre.cached[1], args |-> <<>>, env |-> <<>>])
        /\ Ret.log = <<>>
        /\ fs = Pre.fs
        /\ cached_binary_path = Pre.cached

C15_Witness ==
    /\ Called /\ Pre.which = None /\ Pre.cached # None
    /\ is_file(Pre.fs, Pre.cached[1])
    /\ Pre.cached # Some(LatestBinary)
    /\ LatestDir \in Pre.fs.entries
    /\ HasAsset
    /\ Ret.path = Pre.cached[1]

\* The call before this one failed, and nothing external touched the disk
\* since.
AfterError == TheCall.prev # <<>> /\ ~TheCall.prev[1].ok /\ ~TheCall.prev[1].lost

\* C16: every call queries the release index at most once and downloads at
\* most once, and ends either with a launch descriptor (path, no arguments,
\* empty environment) or with an error, never both and never neither; a
\* failed call leaves the extension's state as it was, and the call after it
\* runs the chain from the start: PATH lookup, then the cache check, then
\* checking-for-update and the release query.
C16_NoRetryNoPartialSuccess ==
    Called =>
        /\ Count("latest_github_release") <= 1
        /\ Count("download_file") <= 1
        /\ Ret.ok <=> TheCall.command # None
        /\ Ret.ok <=> Ret.err = <<>>
        /\ Ret.ok =>
             TheCall.command =
               Some([command |-> Ret.path, args |-> <<>>, env |-> <<>>])
        /\ ~Ret.ok => cached_binary_path = Pre.cached
        /\ AfterError =>
             /\ Pre.which # None => Ret.path = Pre.which[1] /\ Ret.log = <<>>
             /\ (Pre.which = None /\ Pre.cached # None
                   /\ is_file(Pre.fs, Pre.cached[1])) =>
                  Ret.path = Pre.cached[1] /\ Ret.log = <<>>
             /\ Provisioning =>
                  /\ Ret.log[1] = "CheckingForUpdate"
                  /\ Ret.log[2] = "latest_github_release"

C16_Witness ==
    /\ Called /\ AfterError
    /\ TheCall.prev[1].left # None
    /\ TheCall.prev[1].moved
    /\ Pre.which = Some(UserBinary)
    /\ Ret.ok /\ Ret.path = UserBinary

\* C17: cached_binary_path is written only by a call that misses PATH and
\* cache and succeeds, and then holds the path that call returns; a PATH
\* hit, a cache hit and every failing call leave it as it was, and once set
\* it is never empty again.
C17_CacheFrame ==
    Called =>
        /\ cached_binary_path # Pre.cached => Provisioning /\ Ret.ok
        /\ (Provisioning /\ Ret.ok) => cached_binary_path = Some(Ret.path)
        /\ ~Ret.ok => cached_binary_path = Pre.cached
        /\ ~Provisioning => cached_binary_path = Pre.cached
        /\ Pre.cached # None => cached_binary_path # None

C17_Witness ==
    /\ Called /\ Provisioning
    /\ Ret.download = "ok" /\ Ret.listing = "read_dir"
    /\ ~Ret.ok
    /\ Pre.cached # None
    /\ Pre.cached # Some(LatestBinary)
    /\ cached_binary_path = Pre.cached

\* C18: the cleanup of a call never tries to remove the directory
\* typos-lsp-{version} of the version just downloaded: that directory and
\* what was extracted into it are there when the call returns, so the path
\* a successful call returns lies inside it; every other entry of the
\* working directory, whatever its name, is one the cleanup tries to remove.
C18_CleanupKeepsNewInstallation ==
    (Called /\ Did("read_dir")) =>
        /\ LatestDir \notin Ret.attempted
        /\ LatestDir \in fs.entries
        /\ \A i \in Ret.archive : [dir |-> LatestDir, inner |-> i] \in fs.files
        /\ Ret.ok => Ret.path = LatestDir \o "/" \o ExpectedWithin(platform, architecture)
        /\ Ret.listing = "ok" => Ret.attempted = Pre.fs.entries \ {LatestDir}
        /\ Ret.attempted \subseteq Pre.fs.entries \ {LatestDir}

C18_Witness ==
    /\ Called /\ Did("read_dir")
    /\ Ret.ok
    /\ LatestDir \in Pre.fs.entries
    /\ OtherEntry \in Ret.removed
    /\ Cardinality(Ret.removed) >= 2
    /\ is_file(fs, Ret.path)

\* C19: a call that downloads the new version and then fails on listing the
\* working directory fails without touching the cache and leaves what was
\* extracted on disk; the next call, with the same latest release, nothing
\* on PATH and no external change of the disk, finds the file at the final
\* binary path, succeeds without downloading and without removing
\* anything, and the cache then holds that path.
C19_RecoveryAfterListingFailure ==
    Called =>
        /\ (Ret.download = "ok" /\ Ret.listing \in {"read_dir", "entry"}) =>
             /\ ~Ret.ok
             /\ cached_binary_path = Pre.cached
             /\ \A i \in Ret.archive : [dir |-> LatestDir, inner |-> i] \in fs.files
        /\ (TheCall.prev # <<>> /\ TheCall.prev[1].left = Some(LatestBinary)
              /\ ~TheCall.prev[1].lost /\ ~TheCall.prev[1].moved
              /\ HasAsset /\ Ret.query # "err") =>
             /\ Ret.ok
             /\ Ret.path = LatestBinary
             /\ ~Did("download_file")
             /\ ~Did("read_dir")
             /\ fs = Pre.fs
             /\ cached_binary_path = Some(LatestBinary)

C19_Witness ==
    /\ Called
    /\ TheCall.prev # <<>> /\ TheCall.prev[1].left = Some(LatestBinary)
    /\ ~TheCall.prev[1].lost /\ ~TheCall.prev[1].moved
    /\ Pre.cached = None
    /\ Ret.log = <<"CheckingForUpdate", "latest_github_release">>
    /\ Cardinality(VersionDirs(fs)) >= 2
    /\ Ret.ok
    /\ cached_binary_path = Some(LatestBinary)

====
